---- MODULE Spec2Model ----
(***************************************************************************)
(* Workshop collections of avrae-service (workshop/collection.py): the     *)
(* document store, the subscription bookkeeping of WorkshopCollection and  *)
(* the reconciliation of a subscriber's name bindings.                     *)
(*                                                                         *)
(* The store is the variable mdb; every handler is an operator from a      *)
(* store to a store and an outcome, built from the single store writes the *)
(* handler issues, in the order it issues them.  Timestamps (created_at,   *)
(* last_edited, the timestamp of an analytics event) are written but never *)
(* read by any branch of the module and are left out of the documents.     *)
(***************************************************************************)
EXTENDS Integers, Sequences, FiniteSets, Bags, TLC

VARIABLES mdb, result, round, calls, crashes

vars == <<mdb, result, round, calls, crashes>>

(* ------------------------------ bounds -------------------------------- *)
MaxColls == 1
MaxUsers == 2
MaxGuilds == 1
MaxEvents == 3
MaxCrashes == 1
MaxLen == 2

Users == 1..MaxUsers
Guilds == 1..MaxGuilds
CollIds == 1..MaxColls
AliasIds == {"a1", "a2", "a3"}
SnippetIds == {"s1", "s2"}
EnvAliasIds == {"a1"}
Names == {"n1"}
NewNames == {"n1", "n2"}
Descriptions == {"d1"}
Images == {"None"}
ObjNames == {"x", "y"}
CustomNames == {"x", "mine"}

(* ----------------------------- documents ------------------------------ *)
PRIVATE == "PRIVATE"
UNLISTED == "UNLISTED"
PUBLISHED == "PUBLISHED"
PublicationState == {PRIVATE, UNLISTED, PUBLISHED}

Range(s) == {s[i] : i \in DOMAIN s}

\* WorkshopCollection.__init__: the in-memory instance; _aliases and
\* _snippets are the lazily loaded lists, None until loaded.
WorkshopCollection(id, name, description, image, owner, alias_ids, snippet_ids, publish_state, num_subscribers, num_guild_subscribers, tags) ==
    [id |-> id, name |-> name, description |-> description, image |-> image,
     owner |-> owner, alias_ids |-> alias_ids, snippet_ids |-> snippet_ids,
     publish_state |-> publish_state,
     approx_num_subscribers |-> num_subscribers,
     approx_num_guild_subscribers |-> num_guild_subscribers,
     tags |-> tags]

\* to_dict(js=False): the stored document of an instance.
to_dict(inst) ==
    [name |-> inst.name, description |-> inst.description, image |-> inst.image,
     owner |-> inst.owner, alias_ids |-> inst.alias_ids,
     snippet_ids |-> inst.snippet_ids, publish_state |-> inst.publish_state,
     num_subscribers |-> inst.approx_num_subscribers,
     num_guild_subscribers |-> inst.approx_num_guild_subscribers,
     tags |-> inst.tags]

\* from_id: the instance of a stored document (the caller has checked that
\* the document exists; find_one returning None raises CollectionNotFound).
from_id(db, id) ==
    LET raw == db.workshop_collections[id]
    IN  WorkshopCollection(id, raw.name, raw.description, raw.image, raw.owner,
                           raw.alias_ids, raw.snippet_ids, raw.publish_state,
                           raw.num_subscribers, raw.num_guild_subscribers, raw.tags)

CollectionExists(db, id) == id \in DOMAIN db.workshop_collections

\* Variant: the comparison made with the collection's id, not its owner.
is_owner_by_id(inst, user_id) == user_id = inst.id

is_owner(inst, user_id) == user_id = inst.owner

(* ------------------- collectable objects (aliases, snippets) ---------- *)
\* WorkshopAlias.from_id / WorkshopSnippet.from_id: find_one by _id; the
\* object carries the stored name and the id it was looked up by.  A missing
\* document raises CollectableNotFound (ObjectFound is FALSE).
ObjectFound(store, id) == id \in DOMAIN store

ObjectFromId(store, id) == [id |-> id, name |-> store[id].name]

\* load_aliases / load_snippets: one from_id per id of the membership list,
\* in the order of the list; raises CollectableNotFound at the first id that
\* has no document.
LoadRaises(store, ids) == \E i \in DOMAIN ids : ~ObjectFound(store, ids[i])

load_objects(store, ids) == [i \in DOMAIN ids |-> ObjectFromId(store, ids[i])]

\* _generate_default_alias_bindings / _generate_default_snippet_bindings:
\* one {name, id} per loaded object, named with the object's stored name.
generate_default_bindings(store, ids) ==
    LET objs == load_objects(store, ids)
    IN  [i \in DOMAIN objs |-> [name |-> objs[i].name, id |-> objs[i].id]]

(* ------------------------ binding reconciliation ---------------------- *)
\* The orders in which a Python set with the elements of S can be iterated.
IterationOrders(S) == {p \in [1..Cardinality(S) -> S] : Range(p) = S}

\* Variant: the set built from the names of the bindings, not their ids.
binding_ids_by_name(the_bindings) == {the_bindings[i].name : i \in DOMAIN the_bindings}

binding_ids(the_bindings) == {the_bindings[i].id : i \in DOMAIN the_bindings}

missing_ids(the_ids, the_bindings) == Range(the_ids) \ binding_ids(the_bindings)

\* _bindings_sanity_check raises CollectableNotFound when a missing id has no
\* document.
SanityCheckRaises(store, the_ids, the_bindings) ==
    \E m \in missing_ids(the_ids, the_bindings) : ~ObjectFound(store, m)

InTheIds(the_ids, b) == b.id \in Range(the_ids)

\* Variant: no binding filtered out.
KeepBound_all(the_ids, bindings) == bindings

\* The final list comprehension: keep the bindings whose id is in the_ids.
KeepBound(the_ids, bindings) == SelectSeq(bindings, LAMBDA b : InTheIds(the_ids, b))

\* The loop over missing_ids, for one iteration order: append a default
\* binding per missing id.
AppendDefaults(store, the_bindings, order) ==
    the_bindings \o [i \in DOMAIN order |->
                        [name |-> ObjectFromId(store, order[i]).name,
                         id |-> ObjectFromId(store, order[i]).id]]

\* _bindings_sanity_check: the lists it can return, one per iteration order
\* of the set missing_ids.
_bindings_sanity_check(store, the_ids, the_bindings) ==
    {KeepBound(the_ids, AppendDefaults(store, the_bindings, order)) :
        order \in IterationOrders(missing_ids(the_ids, the_bindings))}

(* --------------- capability mixins (workshop/utils.py) ---------------- *)
SubMatches(doc, type, subscriber_id, object_id) ==
    /\ doc.type = type
    /\ doc.subscriber_id = subscriber_id
    /\ doc.object_id = object_id

\* SubscriberMixin.is_subscribed
is_subscribed(db, id, user_id) ==
    \E i \in DOMAIN db.workshop_subscriptions :
        SubMatches(db.workshop_subscriptions[i], "subscribe", user_id, id)

\* GuildActiveMixin.is_server_active
is_server_active(db, id, guild_id) ==
    \E i \in DOMAIN db.workshop_subscriptions :
        SubMatches(db.workshop_subscriptions[i], "server_active", guild_id, id)

\* SubscriberMixin.my_sub_ids / GuildActiveMixin.guild_active_ids: the
\* object ids of the subscriber's records, in store order.
SubIdsOfType(db, type, subscriber_id) ==
    LET mine == SelectSeq(db.workshop_subscriptions,
                          LAMBDA d : d.type = type /\ d.subscriber_id = subscriber_id)
    IN  [i \in DOMAIN mine |-> mine[i].object_id]

my_sub_ids(db, user_id) == SubIdsOfType(db, "subscribe", user_id)

guild_active_ids(db, guild_id) == SubIdsOfType(db, "server_active", guild_id)

(* ----------------------------- store writes --------------------------- *)
\* One write of a handler: insert_one / delete of a subscription record,
\* update_one with $inc on the collection document, insert_one of an
\* analytics event.
InsertSub(doc) == [op |-> "insert_sub", doc |-> doc]

DeleteSub(type, subscriber_id) == [op |-> "delete_sub", type |-> type, subscriber_id |-> subscriber_id]

Inc(field, by) == [op |-> "inc", field |-> field, by |-> by]

LogEvent(type) == [op |-> "log", type |-> type]

IncField(doc, field, by) ==
    IF field = "num_subscribers"
    THEN [doc EXCEPT !.num_subscribers = @ + by]
    ELSE [doc EXCEPT !.num_guild_subscribers = @ + by]

\* The effect of one write of a handler of collection id on the store.  An
\* update_one whose filter matches no document changes nothing.
Apply(db, id, w) ==
    CASE w.op = "insert_sub" ->
           [db EXCEPT !.workshop_subscriptions = Append(@, w.doc)]
      [] w.op = "delete_sub" ->
           [db EXCEPT !.workshop_subscriptions =
               SelectSeq(@, LAMBDA d : ~SubMatches(d, w.type, w.subscriber_id, id))]
      [] w.op = "inc" ->
           IF CollectionExists(db, id)
           THEN [db EXCEPT !.workshop_collections[id] = IncField(@, w.field, w.by)]
           ELSE db
      [] w.op = "log" ->
           [db EXCEPT !.analytics_alias_events =
               @ (+) SetToBag({[type |-> w.type, object_id |-> id]})]

RECURSIVE ApplyAll(_, _, _)
ApplyAll(db, id, ws) ==
    IF ws = <<>> THEN db ELSE ApplyAll(Apply(db, id, Head(ws)), id, Tail(ws))

(* ------------------------------ handlers ------------------------------ *)
SubscriptionDoc(db, inst, type, subscriber_id) ==
    [type |-> type, subscriber_id |-> subscriber_id, object_id |-> inst.id,
     alias_bindings |-> generate_default_bindings(db.workshop_aliases, inst.alias_ids),
     snippet_bindings |-> generate_default_bindings(db.workshop_snippets, inst.snippet_ids)]

GenerateRaises(db, inst) ==
    \/ LoadRaises(db.workshop_aliases, inst.alias_ids)
    \/ LoadRaises(db.workshop_snippets, inst.snippet_ids)

\* Variant: the private check made before the already-subscribed check.
subscribe_check_private_first(db, inst, user_id) ==
    IF inst.publish_state = PRIVATE /\ ~is_owner(inst, user_id) THEN "private"
    ELSE IF is_subscribed(db, inst.id, user_id) THEN "already_subscribed"
    ELSE IF GenerateRaises(db, inst) THEN "CollectableNotFound"
    ELSE "ok"

\* subscribe, up to the first write: the two NotAllowed checks, in the
\* order of the code, then the generation of the default bindings.
subscribe_check(db, inst, user_id) ==
    IF is_subscribed(db, inst.id, user_id) THEN "already_subscribed"
    ELSE IF inst.publish_state = PRIVATE /\ ~is_owner(inst, user_id) THEN "private"
    ELSE IF GenerateRaises(db, inst) THEN "CollectableNotFound"
    ELSE "ok"

\* Variant: the counter incremented before the record is inserted.
subscribe_writes_count_first(db, inst, user_id) ==
    << Inc("num_subscribers", 1),
       InsertSub(SubscriptionDoc(db, inst, "subscribe", user_id)),
       LogEvent("subscribe") >>

\* subscribe, from the first write on: the writes in the order of the code.
subscribe_writes(db, inst, user_id) ==
    << InsertSub(SubscriptionDoc(db, inst, "subscribe", user_id)),
       Inc("num_subscribers", 1),
       LogEvent("subscribe") >>

\* unsubscribe has no check of its own; SubscriberMixin.unsubscribe removes
\* the record.
unsubscribe_check(db, inst, user_id) == "ok"

\* Variant: the decrement of the counter left out.
unsubscribe_writes_no_decrement(db, inst, user_id) ==
    << DeleteSub("subscribe", user_id),
       LogEvent("unsubscribe") >>

unsubscribe_writes(db, inst, user_id) ==
    << DeleteSub("subscribe", user_id),
       Inc("num_subscribers", -1),
       LogEvent("unsubscribe") >>

\* Variant: the owner exempted from the private check, as in subscribe.
set_server_active_check_owner_exempt(db, inst, guild_id) ==
    IF is_server_active(db, inst.id, guild_id) THEN "already_active"
    ELSE IF inst.publish_state = PRIVATE /\ ~is_owner(inst, guild_id) THEN "private"
    ELSE IF GenerateRaises(db, inst) THEN "CollectableNotFound"
    ELSE "ok"

set_server_active_check(db, inst, guild_id) ==
    IF is_server_active(db, inst.id, guild_id) THEN "already_active"
    ELSE IF inst.publish_state = PRIVATE THEN "private"
    ELSE IF GenerateRaises(db, inst) THEN "CollectableNotFound"
    ELSE "ok"

set_server_active_writes(db, inst, guild_id) ==
    << InsertSub(SubscriptionDoc(db, inst, "server_active", guild_id)),
       Inc("num_guild_subscribers", 1),
       LogEvent("server_subscribe") >>

unset_server_active_check(db, inst, guild_id) == "ok"

unset_server_active_writes(db, inst, guild_id) ==
    << DeleteSub("server_active", guild_id),
       Inc("num_guild_subscribers", -1),
       LogEvent("server_unsubscribe") >>

Ops == {"subscribe", "unsubscribe", "set_server_active", "unset_server_active"}

Check(op, db, inst, who) ==
    CASE op = "subscribe" -> subscribe_check(db, inst, who)
      [] op = "unsubscribe" -> unsubscribe_check(db, inst, who)
      [] op = "set_server_active" -> set_server_active_check(db, inst, who)
      [] op = "unset_server_active" -> unset_server_active_check(db, inst, who)

Writes(op, db, inst, who) ==
    CASE op = "subscribe" -> subscribe_writes(db, inst, who)
      [] op = "unsubscribe" -> unsubscribe_writes(db, inst, who)
      [] op = "set_server_active" -> set_server_active_writes(db, inst, who)
      [] op = "unset_server_active" -> unset_server_active_writes(db, inst, who)

\* A whole call of one of the four handlers on the instance loaded from the
\* store: nothing is written when a check raises.
Handle(op, db, id, who) ==
    LET inst == from_id(db, id)
        status == Check(op, db, inst, who)
    IN  [db |-> IF status = "ok" THEN ApplyAll(db, id, Writes(op, db, inst, who)) ELSE db,
         status |-> status]

\* Variant: the new collection unlisted from the start.
create_new_inst_unlisted(id, user_id, name, description, image) ==
    WorkshopCollection(id, name, description, image, user_id, <<>>, <<>>, UNLISTED, 0, 0, <<>>)

\* create_new: the instance with the defaults of the code, stored with
\* to_dict and returned with the inserted id.
create_new_inst(id, user_id, name, description, image) ==
    WorkshopCollection(id, name, description, image, user_id, <<>>, <<>>, PRIVATE, 0, 0, <<>>)

create_new(db, user_id, name, description, image) ==
    LET inserted_id == db.last_id + 1
        inst == create_new_inst(inserted_id, user_id, name, description, image)
    IN  [db |-> [db EXCEPT !.workshop_collections = @ @@ (inserted_id :> to_dict(inst)),
                           !.last_id = inserted_id],
         inst |-> inst]

\* update_info: $set of name, description and image.
update_info(db, id, name, description, image) ==
    IF CollectionExists(db, id)
    THEN [db EXCEPT !.workshop_collections[id].name = name,
                    !.workshop_collections[id].description = description,
                    !.workshop_collections[id].image = image]
    ELSE db

\* Variant: the loop left at the first id without a document.
RECURSIVE YieldUntilMissing(_, _)
YieldUntilMissing(db, ids) ==
    IF ids = <<>> THEN <<>>
    ELSE IF ~CollectionExists(db, Head(ids))
         THEN <<>>
         ELSE <<from_id(db, Head(ids))>> \o YieldUntilMissing(db, Tail(ids))

\* user_subscribed / server_subscribed: from_id for each id in turn; an id
\* without a document raises CollectionNotFound, which is caught, and the
\* loop continues with the next id.
RECURSIVE YieldCollections(_, _)
YieldCollections(db, ids) ==
    IF ids = <<>> THEN <<>>
    ELSE IF ~CollectionExists(db, Head(ids))
         THEN YieldCollections(db, Tail(ids))
         ELSE <<from_id(db, Head(ids))>> \o YieldCollections(db, Tail(ids))

user_subscribed(db, user_id) == YieldCollections(db, my_sub_ids(db, user_id))

server_subscribed(db, guild_id) == YieldCollections(db, guild_active_ids(db, guild_id))

(* ------------------------------ the state ----------------------------- *)
Counters(db, id) ==
    IF CollectionExists(db, id)
    THEN <<db.workshop_collections[id].num_subscribers,
           db.workshop_collections[id].num_guild_subscribers>>
    ELSE <<>>

\* The outcome of the last completed call: the handler, its arguments, how
\* it ended and what it returned.
Outcome(op, id, who, status, value) ==
    [op |-> op, id |-> id, who |-> who, status |-> status, value |-> value]

NoOutcome == [op |-> "none", id |-> 0, who |-> 0, status |-> "none", value |-> <<>>]

\* The round trip in progress: the successful subscribe (set_server_active)
\* that the last call was, with the counters of the collection before it;
\* closed once the next call is the unsubscribe (unset_server_active) of the
\* same subscriber on the same collection.
NoRound == [op |-> "none", id |-> 0, who |-> 0, pre |-> <<>>, closed |-> FALSE]

Opens(op) == op \in {"subscribe", "set_server_active"}

Closes(op, r) ==
    /\ ~r.closed
    /\ \/ op = "unsubscribe" /\ r.op = "subscribe"
       \/ op = "unset_server_active" /\ r.op = "set_server_active"

NextRound(outcome) ==
    IF Opens(outcome.op) /\ outcome.status = "ok"
    THEN [op |-> outcome.op, id |-> outcome.id, who |-> outcome.who,
          pre |-> Counters(mdb, outcome.id), closed |-> FALSE]
    ELSE IF Closes(outcome.op, round) /\ outcome.id = round.id /\ outcome.who = round.who
         THEN [round EXCEPT !.closed = TRUE]
         ELSE NoRound

Idle == [op |-> "idle", id |-> 0, who |-> 0, todo |-> <<>>, done |-> 0, pre |-> <<>>]

MaxProcs == 1
Procs == 1..MaxProcs

DefaultAliases == [a \in AliasIds |-> [name |-> IF a = "a2" THEN "y" ELSE "x"]]

DefaultSnippets == [a \in SnippetIds |-> [name |-> IF a = "s2" THEN "y" ELSE "x"]]

EmptyStore ==
    [workshop_collections |-> <<>>,
     workshop_subscriptions |-> <<>>,
     analytics_alias_events |-> EmptyBag,
     workshop_aliases |-> DefaultAliases,
     workshop_snippets |-> DefaultSnippets,
     last_id |-> 0]

Init ==
    /\ mdb = EmptyStore
    /\ result = NoOutcome
    /\ round = NoRound
    /\ calls = [p \in Procs |-> Idle]
    /\ crashes = 0

AllIdle == \A p \in Procs : calls[p].op = "idle"

EventsLeft == BagCardinality(mdb.analytics_alias_events) < MaxEvents

Done(outcome) ==
    /\ result' = outcome
    /\ round' = NextRound(outcome)
    /\ UNCHANGED <<calls, crashes>>

(* ------------------- actions: one whole call each --------------------- *)
CreateNew(user_id, name, description, image) ==
    /\ AllIdle
    /\ mdb.last_id < MaxColls
    /\ LET r == create_new(mdb, user_id, name, description, image)
       IN  /\ mdb' = r.db
           /\ Done(Outcome("create_new", r.inst.id, user_id, "ok", <<r.inst>>))

UpdateInfo(id, name, description, image) ==
    /\ AllIdle
    /\ CollectionExists(mdb, id)
    /\ mdb' = update_info(mdb, id, name, description, image)
    /\ Done(Outcome("update_info", id, 0, "ok", <<>>))

Call(op, id, who) ==
    /\ AllIdle
    /\ CollectionExists(mdb, id)
    /\ EventsLeft
    /\ LET r == Handle(op, mdb, id, who)
       IN  /\ mdb' = r.db
           /\ Done(Outcome(op, id, who, r.status, <<>>))

Subscribe(id, user_id) == Call("subscribe", id, user_id)

Unsubscribe(id, user_id) == Call("unsubscribe", id, user_id)

SetServerActive(id, guild_id) == Call("set_server_active", id, guild_id)

UnsetServerActive(id, guild_id) == Call("unset_server_active", id, guild_id)

\* update_alias_bindings / update_snippet_bindings on the subscription
\* document at position i of the store (its _id): the stores the $set of the
\* reconciled list can leave.
update_alias_bindings(db, inst, i) ==
    {[db EXCEPT !.workshop_subscriptions[i].alias_bindings = the_bindings] :
        the_bindings \in _bindings_sanity_check(db.workshop_aliases, inst.alias_ids,
                                                db.workshop_subscriptions[i].alias_bindings)}

update_snippet_bindings(db, inst, i) ==
    {[db EXCEPT !.workshop_subscriptions[i].snippet_bindings = the_bindings] :
        the_bindings \in _bindings_sanity_check(db.workshop_snippets, inst.snippet_ids,
                                                db.workshop_subscriptions[i].snippet_bindings)}

\* What a successful reconciliation reports: whether it is the first of a
\* run of applications to the same document or a later one, and the list
\* the document held before the first.
Applications(op, i, stored) ==
    IF result.op = op /\ result.who = i /\ result.status = "ok"
    THEN <<2, result.value[2]>>
    ELSE <<1, stored>>

UpdateAliasBindings(i) ==
    /\ AllIdle
    /\ i \in DOMAIN mdb.workshop_subscriptions
    /\ LET doc == mdb.workshop_subscriptions[i]
       IN  /\ CollectionExists(mdb, doc.object_id)
           /\ LET inst == from_id(mdb, doc.object_id)
              IN  IF SanityCheckRaises(mdb.workshop_aliases, inst.alias_ids, doc.alias_bindings)
                  THEN /\ UNCHANGED mdb
                       /\ Done(Outcome("update_alias_bindings", inst.id, i, "CollectableNotFound", <<>>))
                  ELSE /\ mdb' \in update_alias_bindings(mdb, inst, i)
                       /\ Done(Outcome("update_alias_bindings", inst.id, i, "ok",
                                       Applications("update_alias_bindings", i, doc.alias_bindings)))

UpdateSnippetBindings(i) ==
    /\ AllIdle
    /\ i \in DOMAIN mdb.workshop_subscriptions
    /\ LET doc == mdb.workshop_subscriptions[i]
       IN  /\ CollectionExists(mdb, doc.object_id)
           /\ LET inst == from_id(mdb, doc.object_id)
              IN  IF SanityCheckRaises(mdb.workshop_snippets, inst.snippet_ids, doc.snippet_bindings)
                  THEN /\ UNCHANGED mdb
                       /\ Done(Outcome("update_snippet_bindings", inst.id, i, "CollectableNotFound", <<>>))
                  ELSE /\ mdb' \in update_snippet_bindings(mdb, inst, i)
                       /\ Done(Outcome("update_snippet_bindings", inst.id, i, "ok",
                                       Applications("update_snippet_bindings", i, doc.snippet_bindings)))

LoadAliases(id) ==
    /\ AllIdle
    /\ CollectionExists(mdb, id)
    /\ UNCHANGED mdb
    /\ LET inst == from_id(mdb, id)
       IN  IF LoadRaises(mdb.workshop_aliases, inst.alias_ids)
           THEN Done(Outcome("load_aliases", id, 0, "CollectableNotFound", <<>>))
           ELSE Done(Outcome("load_aliases", id, 0, "ok", load_objects(mdb.workshop_aliases, inst.alias_ids)))

LoadSnippets(id) ==
    /\ AllIdle
    /\ CollectionExists(mdb, id)
    /\ UNCHANGED mdb
    /\ LET inst == from_id(mdb, id)
       IN  IF LoadRaises(mdb.workshop_snippets, inst.snippet_ids)
           THEN Done(Outcome("load_snippets", id, 0, "CollectableNotFound", <<>>))
           ELSE Done(Outcome("load_snippets", id, 0, "ok", load_objects(mdb.workshop_snippets, inst.snippet_ids)))

UserSubscribed(user_id) ==
    /\ AllIdle
    /\ UNCHANGED mdb
    /\ Done(Outcome("user_subscribed", 0, user_id, "ok", user_subscribed(mdb, user_id)))

ServerSubscribed(guild_id) ==
    /\ AllIdle
    /\ UNCHANGED mdb
    /\ Done(Outcome("server_subscribed", 0, guild_id, "ok", server_subscribed(mdb, guild_id)))

(* ---- the rest of the service: what it does to the documents here ----- *)
\* The publication state of a collection is changed by its owner.
SetPublishState(id, state) ==
    /\ AllIdle
    /\ CollectionExists(mdb, id)
    /\ mdb.workshop_collections[id].publish_state # state
    /\ mdb' = [mdb EXCEPT !.workshop_collections[id].publish_state = state]
    /\ Done(Outcome("set_state", id, 0, "ok", <<>>))

\* An alias is added to a collection.
AddAlias(id, alias_id) ==
    /\ AllIdle
    /\ CollectionExists(mdb, id)
    /\ \A c \in DOMAIN mdb.workshop_collections :
          alias_id \notin Range(mdb.workshop_collections[c].alias_ids)
    /\ mdb' = [mdb EXCEPT !.workshop_collections[id].alias_ids = Append(@, alias_id)]
    /\ Done(Outcome("add_alias", id, 0, "ok", <<>>))

\* A collection is deleted; the subscription records that refer to it stay.
DeleteCollection(id) ==
    /\ AllIdle
    /\ CollectionExists(mdb, id)
    /\ mdb' = [mdb EXCEPT !.workshop_collections =
                  [c \in DOMAIN @ \ {id} |-> @[c]]]
    /\ Done(Outcome("delete", id, 0, "ok", <<>>))

Next ==
    \/ \E u \in Users, n \in Names, d \in Descriptions, img \in Images : CreateNew(u, n, d, img)
    \/ \E id \in CollIds, u \in Users : Subscribe(id, u)
    \/ \E id \in CollIds, u \in Users : Unsubscribe(id, u)
    \/ \E id \in CollIds, g \in Guilds : SetServerActive(id, g)
    \/ \E id \in CollIds, g \in Guilds : UnsetServerActive(id, g)
    \/ \E id \in CollIds, st \in PublicationState : SetPublishState(id, st)
    \/ \E id \in CollIds, a \in EnvAliasIds : AddAlias(id, a)

Spec == Init /\ [][Next]_vars

(* ---------- reconciliation: membership, bindings and objects ---------- *)
SeqsUpTo(S, n) == UNION {[1..k -> S] : k \in 0..n}

MembershipLists(Ids) == {q \in SeqsUpTo(Ids, Cardinality(Ids)) : Cardinality(Range(q)) = Len(q)}

BindingLists(Ids) == SeqsUpTo([name : CustomNames, id : Ids], MaxLen)

ObjectStores(Ids) == UNION {[D -> [name : ObjNames]] : D \in SUBSET Ids}

\* A published collection of user 1 with one subscriber, user 2, whose
\* stored bindings, the membership lists and the stored objects are any of
\* the small ones: either the alias side or the snippet side varies.
BindStore(alias_ids, alias_bindings, aliases, snippet_ids, snippet_bindings, snippets) ==
    [workshop_collections |->
        (1 :> [to_dict(create_new_inst(1, 1, "n1", "d1", "None")) EXCEPT
                 !.alias_ids = alias_ids, !.snippet_ids = snippet_ids,
                 !.publish_state = PUBLISHED, !.num_subscribers = 1]),
     workshop_subscriptions |->
        << [type |-> "subscribe", subscriber_id |-> 2, object_id |-> 1,
            alias_bindings |-> alias_bindings, snippet_bindings |-> snippet_bindings] >>,
     analytics_alias_events |-> SetToBag({[type |-> "subscribe", object_id |-> 1]}),
     workshop_aliases |-> aliases,
     workshop_snippets |-> snippets,
     last_id |-> 1]

InitBind ==
    /\ \/ \E M \in MembershipLists(AliasIds), B \in BindingLists(AliasIds), S \in ObjectStores(AliasIds) :
            mdb = BindStore(M, B, S, <<>>, <<>>, DefaultSnippets)
       \/ \E M \in MembershipLists(SnippetIds), B \in BindingLists(SnippetIds), S \in ObjectStores(SnippetIds) :
            mdb = BindStore(<<>>, <<>>, DefaultAliases, M, B, S)
    /\ result = NoOutcome
    /\ round = NoRound
    /\ calls = [p \in Procs |-> Idle]
    /\ crashes = 0

NextBind ==
    \/ \E i \in DOMAIN mdb.workshop_subscriptions : UpdateAliasBindings(i)
    \/ \E i \in DOMAIN mdb.workshop_subscriptions : UpdateSnippetBindings(i)
    \/ \E id \in CollIds : LoadAliases(id)
    \/ \E id \in CollIds : LoadSnippets(id)

SpecBind == InitBind /\ [][NextBind]_vars

(* ------------- subscriptions whose collection may be gone ------------- *)
RefIds == 1..(MaxColls + 1)

RefDocs ==
    {[type |-> "subscribe", subscriber_id |-> u, object_id |-> id,
      alias_bindings |-> <<>>, snippet_bindings |-> <<>>] : u \in Users, id \in RefIds}
    \cup
    {[type |-> "server_active", subscriber_id |-> g, object_id |-> id,
      alias_bindings |-> <<>>, snippet_bindings |-> <<>>] : g \in Guilds, id \in RefIds}

RefLists == {q \in SeqsUpTo(RefDocs, MaxLen + 1) : Cardinality(Range(q)) = Len(q)}

CountSubs(db, type, id) ==
    Len(SelectSeq(db.workshop_subscriptions, LAMBDA d : d.type = type /\ d.object_id = id))

\* Published collections of user 1, some of them deleted since, and the
\* subscription records of users and guilds, in any store order.
IterStore(existing, subs) ==
    LET counted == [workshop_subscriptions |-> subs]
    IN  [workshop_collections |->
            [id \in existing |->
                [to_dict(create_new_inst(id, 1, "n1", "d1", "None")) EXCEPT
                    !.publish_state = PUBLISHED,
                    !.num_subscribers = CountSubs(counted, "subscribe", id),
                    !.num_guild_subscribers = CountSubs(counted, "server_active", id)]],
         workshop_subscriptions |-> subs,
         analytics_alias_events |-> EmptyBag,
         workshop_aliases |-> DefaultAliases,
         workshop_snippets |-> DefaultSnippets,
         last_id |-> MaxColls + 1]

InitIter ==
    /\ \E existing \in SUBSET RefIds, subs \in RefLists : mdb = IterStore(existing, subs)
    /\ result = NoOutcome
    /\ round = NoRound
    /\ calls = [p \in Procs |-> Idle]
    /\ crashes = 0

NextIter ==
    \/ \E u \in Users : UserSubscribed(u)
    \/ \E g \in Guilds : ServerSubscribed(g)
    \/ \E id \in RefIds : DeleteCollection(id)
    \/ \E id \in RefIds, n \in NewNames, d \in Descriptions, img \in Images : UpdateInfo(id, n, d, img)

SpecIter == InitIter /\ [][NextIter]_vars

(* ------------- the handlers write by write, with crashes -------------- *)
\* A request starts: the instance is loaded and the checks are made; when
\* they pass, the writes of the handler are pending, in order.
Start(p, op, id, who) ==
    /\ calls[p].op = "idle"
    /\ CollectionExists(mdb, id)
    /\ EventsLeft
    /\ UNCHANGED <<mdb, crashes>>
    /\ LET inst == from_id(mdb, id)
           status == Check(op, mdb, inst, who)
       IN  IF status = "ok"
           THEN /\ calls' = [calls EXCEPT ![p] =
                                [op |-> op, id |-> id, who |-> who,
                                 todo |-> Writes(op, mdb, inst, who), done |-> 0,
                                 pre |-> Counters(mdb, id)]]
                /\ UNCHANGED <<result, round>>
           ELSE /\ result' = Outcome(op, id, who, status, <<>>)
                /\ UNCHANGED <<calls, round>>

\* One request at a time: a request starts when no other is in progress.
Begin(p, op, id, who) ==
    /\ AllIdle
    /\ Start(p, op, id, who)

\* The next write of a request reaches the store; after the last one the
\* call returns.
Step(p) ==
    /\ calls[p].op # "idle"
    /\ mdb' = Apply(mdb, calls[p].id, Head(calls[p].todo))
    /\ UNCHANGED <<round, crashes>>
    /\ IF Len(calls[p].todo) = 1
       THEN /\ calls' = [calls EXCEPT ![p] = Idle]
            /\ result' = Outcome(calls[p].op, calls[p].id, calls[p].who, "ok", <<>>)
       ELSE /\ calls' = [calls EXCEPT ![p].todo = Tail(@), ![p].done = @ + 1]
            /\ UNCHANGED result

\* The process dies between two writes: the pending ones are never made.
Crash(p) ==
    /\ calls[p].op # "idle"
    /\ crashes < MaxCrashes
    /\ crashes' = crashes + 1
    /\ UNCHANGED <<mdb, round>>
    /\ calls' = [calls EXCEPT ![p] = Idle]
    /\ result' = Outcome(calls[p].op, calls[p].id, calls[p].who, "crashed", <<calls[p].done>>)

\* One collection, as create_new leaves it.
InitSteps ==
    /\ \E u \in Users, n \in Names, d \in Descriptions, img \in Images :
          mdb = create_new(EmptyStore, u, n, d, img).db
    /\ result = NoOutcome
    /\ round = NoRound
    /\ calls = [p \in Procs |-> Idle]
    /\ crashes = 0

NextSteps ==
    \/ \E id \in DOMAIN mdb.workshop_collections, st \in PublicationState : SetPublishState(id, st)
    \/ \E p \in Procs, id \in DOMAIN mdb.workshop_collections, u \in Users : Begin(p, "subscribe", id, u)
    \/ \E p \in Procs, id \in DOMAIN mdb.workshop_collections, u \in Users : Begin(p, "unsubscribe", id, u)
    \/ \E p \in Procs, id \in DOMAIN mdb.workshop_collections, g \in Guilds : Begin(p, "set_server_active", id, g)
    \/ \E p \in Procs, id \in DOMAIN mdb.workshop_collections, g \in Guilds : Begin(p, "unset_server_active", id, g)
    \/ \E p \in Procs : Step(p)
    \/ \E p \in Procs : Crash(p)

SpecSteps == InitSteps /\ [][NextSteps]_vars

(* ---------------- requests served at the same time -------------------- *)
\* The requests a server with several workers has in progress at once:
\* nothing in the handlers takes a lock, so the check of one request and the
\* writes of another interleave in any order.
MaxRequests == 2
Requests == 1..MaxRequests

\* One collection made by create_new, in any publication state.
InitConc ==
    /\ \E u \in Users, n \in Names, d \in Descriptions, img \in Images, st \in PublicationState :
          mdb = [create_new(EmptyStore, u, n, d, img).db EXCEPT
                    !.workshop_collections[1].publish_state = st]
    /\ result = NoOutcome
    /\ round = NoRound
    /\ calls = [p \in Requests |-> Idle]
    /\ crashes = 0

NextConc ==
    \/ \E p \in Requests, id \in DOMAIN mdb.workshop_collections, u \in Users : Start(p, "subscribe", id, u)
    \/ \E p \in Requests, id \in DOMAIN mdb.workshop_collections, u \in Users : Start(p, "unsubscribe", id, u)
    \/ \E p \in Requests, id \in DOMAIN mdb.workshop_collections, g \in Guilds : Start(p, "set_server_active", id, g)
    \/ \E p \in Requests, id \in DOMAIN mdb.workshop_collections, g \in Guilds : Start(p, "unset_server_active", id, g)
    \/ \E p \in Requests : Step(p)

SpecConc == InitConc /\ [][NextConc]_vars

(* ============================== properties =========================== *)
Coll(db, id) == db.workshop_collections[id]

Records(db, type, who, id) ==
    SelectSeq(db.workshop_subscriptions, LAMBDA d : SubMatches(d, type, who, id))

NumRecords(db, type, who, id) == Len(Records(db, type, who, id))

EventCount(db, type, id) == CopiesIn([type |-> type, object_id |-> id], db.analytics_alias_events)

IsCall(r, op, id, who) == r.op = op /\ r.id = id /\ r.who = who

\* The step appended exactly one subscription record, of the given type,
\* subscriber and collection, and left the records before it as they were.
InsertedOne(old, new, type, who, id) ==
    /\ Len(new.workshop_subscriptions) = Len(old.workshop_subscriptions) + 1
    /\ SubSeq(new.workshop_subscriptions, 1, Len(old.workshop_subscriptions)) = old.workshop_subscriptions
    /\ SubMatches(new.workshop_subscriptions[Len(new.workshop_subscriptions)], type, who, id)
    /\ NumRecords(new, type, who, id) = NumRecords(old, type, who, id) + 1

\* C1: on a PRIVATE collection, subscribe by a user who is not subscribed
\* fails with NotAllowed ("private") when the user is not the owner, and
\* then inserts no record and leaves num_subscribers unchanged; by the owner
\* it succeeds, inserts exactly one 'subscribe' record for (user,
\* collection) and increments num_subscribers by 1.
C1_PrivateSubscribe ==
    [][\A id \in CollIds, u \in Users :
         ( /\ IsCall(result', "subscribe", id, u)
           /\ CollectionExists(mdb, id)
           /\ Coll(mdb, id).publish_state = PRIVATE
           /\ NumRecords(mdb, "subscribe", u, id) = 0 )
         => IF u # Coll(mdb, id).owner
            THEN /\ result'.status = "private"
                 /\ mdb'.workshop_subscriptions = mdb.workshop_subscriptions
                 /\ Coll(mdb', id).num_subscribers = Coll(mdb, id).num_subscribers
            ELSE /\ result'.status = "ok"
                 /\ InsertedOne(mdb, mdb', "subscribe", u, id)
                 /\ NumRecords(mdb', "subscribe", u, id) = 1
                 /\ Coll(mdb', id).num_subscribers = Coll(mdb, id).num_subscribers + 1
      ]_vars

C1_Witness ==
    /\ result.op = "subscribe"
    /\ result.status = "private"
    /\ CollectionExists(mdb, result.id)
    /\ Coll(mdb, result.id).publish_state = PRIVATE
    /\ result.who # Coll(mdb, result.id).owner
    /\ NumRecords(mdb, "subscribe", result.who, result.id) = 0

\* C2: once subscribe(user) has succeeded the user is subscribed, and stays
\* so until unsubscribe(user) on that collection; while the user is
\* subscribed, subscribe(user) fails with NotAllowed ("already subscribed")
\* whatever the publication state, and the failed call changes nothing in
\* the store: no record, no counter, no analytics event.
C2_SecondSubscribe ==
    [][\A id \in CollIds, u \in Users :
         /\ (IsCall(result', "subscribe", id, u) /\ result'.status = "ok")
               => is_subscribed(mdb', id, u)
         /\ (is_subscribed(mdb, id, u) /\ ~IsCall(result', "unsubscribe", id, u))
               => is_subscribed(mdb', id, u)
         /\ (is_subscribed(mdb, id, u) /\ IsCall(result', "subscribe", id, u))
               => /\ result'.status = "already_subscribed"
                  /\ mdb' = mdb
      ]_vars

C2_Witness ==
    /\ result.op = "subscribe"
    /\ result.status = "already_subscribed"
    /\ Coll(mdb, result.id).publish_state = PRIVATE
    /\ result.who # Coll(mdb, result.id).owner
    /\ NumRecords(mdb, "subscribe", result.who, result.id) = 1
    /\ EventCount(mdb, "subscribe", result.id) = 1

\* C3: a successful subscribe(user) directly followed by unsubscribe(user)
\* on the same collection leaves num_subscribers as it was before the
\* subscribe and no subscription record of the user; likewise
\* set_server_active(guild) followed by unset_server_active(guild) and
\* num_guild_subscribers.
C3_RoundTrip ==
    round.closed =>
        /\ CollectionExists(mdb, round.id)
        /\ IF round.op = "subscribe"
           THEN /\ Coll(mdb, round.id).num_subscribers = round.pre[1]
                /\ NumRecords(mdb, "subscribe", round.who, round.id) = 0
           ELSE /\ Coll(mdb, round.id).num_guild_subscribers = round.pre[2]
                /\ NumRecords(mdb, "server_active", round.who, round.id) = 0

C3_Witness ==
    /\ round.closed
    /\ round.op = "subscribe"
    /\ round.pre[1] = 1
    /\ result.op = "unsubscribe"
    /\ EventCount(mdb, "unsubscribe", round.id) = 1

\* The bindings the claim of C4 expects for membership M, stored bindings B
\* and stored objects: B restricted to M, with one default per unbound id.
ExpectedBindings(store, M, B) ==
    {b \in Range(B) : b.id \in Range(M)}
    \cup {[name |-> store[m].name, id |-> m] : m \in Range(M) \ {b.id : b \in Range(B)}}

Resolvable(store, M, B) ==
    \A m \in Range(M) \ {b.id : b \in Range(B)} : m \in DOMAIN store

Reconciled(store, M, B, status, new) ==
    Resolvable(store, M, B) =>
        /\ status = "ok"
        /\ Range(new) = ExpectedBindings(store, M, B)
        /\ {b.id : b \in Range(new)} = Range(M)

\* C4: when every id of the membership list M that has no binding in B
\* resolves to an object, the reconciliation returns, and persists, bindings
\* that are as a set (B restricted to ids of M) united with one default
\* binding, named with the object's stored name, per id of M without a
\* binding in B; the ids bound are exactly M.
C4_Reconciliation ==
    [][\A i \in DOMAIN mdb.workshop_subscriptions :
         LET doc == mdb.workshop_subscriptions[i]
             new == mdb'.workshop_subscriptions[i]
         IN  /\ IsCall(result', "update_alias_bindings", doc.object_id, i)
                  => Reconciled(mdb.workshop_aliases, Coll(mdb, doc.object_id).alias_ids,
                                doc.alias_bindings, result'.status, new.alias_bindings)
             /\ IsCall(result', "update_snippet_bindings", doc.object_id, i)
                  => Reconciled(mdb.workshop_snippets, Coll(mdb, doc.object_id).snippet_ids,
                                doc.snippet_bindings, result'.status, new.snippet_bindings)
      ]_vars

\* A first reconciliation that kept a custom name, dropped a binding to a
\* removed alias and added a default.
C4_Witness ==
    /\ result.op = "update_alias_bindings"
    /\ result.status = "ok"
    /\ result.value[1] = 1
    /\ LET B == result.value[2]
           M == Coll(mdb, result.id).alias_ids
           new == mdb.workshop_subscriptions[result.who].alias_bindings
       IN  /\ \E b \in Range(B) : b.id \notin Range(M)
           /\ \E b \in Range(B) : b.id \in Range(M) /\ b.name = "mine" /\ b \in Range(new)
           /\ \E m \in Range(M) : m \notin {b.id : b \in Range(B)}
           /\ Range(new) = ExpectedBindings(mdb.workshop_aliases, M, B)

\* C5: a reconciliation applied to the result of a previous one, with the
\* membership and the objects' names unchanged, succeeds and persists the
\* same binding list: nothing in the store changes.
C5_Idempotent ==
    [][\A op \in {"update_alias_bindings", "update_snippet_bindings"} :
         ( /\ result.op = op /\ result.status = "ok"
           /\ result'.op = op /\ result'.who = result.who )
         => /\ result'.status = "ok"
            /\ mdb' = mdb
      ]_vars

C5_Witness ==
    /\ result.op = "update_alias_bindings"
    /\ result.status = "ok"
    /\ result.value[1] = 2
    /\ result.value[2] # mdb.workshop_subscriptions[result.who].alias_bindings
    /\ mdb.workshop_subscriptions[result.who].alias_bindings # <<>>

ExistingIds(db, ids) == SelectSeq(ids, LAMBDA id : CollectionExists(db, id))

YieldsExisting(db, ids, value) ==
    LET e == ExistingIds(db, ids)
    IN  /\ Len(value) = Len(e)
        /\ \A k \in DOMAIN e : value[k].id = e[k] /\ to_dict(value[k]) = Coll(db, e[k])

\* C6: user_subscribed(user) and server_subscribed(guild) yield exactly the
\* collections that the subscriber's subscription ids refer to and that
\* exist in the store, in the order of those ids: a missing collection is
\* skipped and the ones after it are still yielded.
C6_SkipsMissing ==
    /\ result.op = "user_subscribed"
          => YieldsExisting(mdb, my_sub_ids(mdb, result.who), result.value)
    /\ result.op = "server_subscribed"
          => YieldsExisting(mdb, guild_active_ids(mdb, result.who), result.value)

C6_Witness ==
    /\ result.op = "user_subscribed"
    /\ LET ids == my_sub_ids(mdb, result.who)
       IN  \E j, k \in DOMAIN ids :
              /\ j < k
              /\ ~CollectionExists(mdb, ids[j])
              /\ CollectionExists(mdb, ids[k])
              /\ \E n \in DOMAIN result.value : result.value[n].id = ids[k]

\* C7: set_server_active(guild) fails with NotAllowed ("already active")
\* when the guild is already active, whatever the publication state;
\* otherwise it fails with NotAllowed ("private") on a PRIVATE collection
\* for every guild, the owner's id included; a failure changes neither the
\* records nor num_guild_subscribers; otherwise exactly one 'server_active'
\* record is inserted and num_guild_subscribers increases by 1.
C7_SetServerActive ==
    [][\A id \in CollIds, g \in Guilds :
         (IsCall(result', "set_server_active", id, g) /\ CollectionExists(mdb, id))
         => IF NumRecords(mdb, "server_active", g, id) > 0
            THEN /\ result'.status = "already_active"
                 /\ mdb'.workshop_subscriptions = mdb.workshop_subscriptions
                 /\ Coll(mdb', id).num_guild_subscribers = Coll(mdb, id).num_guild_subscribers
            ELSE IF Coll(mdb, id).publish_state = PRIVATE
            THEN /\ result'.status = "private"
                 /\ mdb'.workshop_subscriptions = mdb.workshop_subscriptions
                 /\ Coll(mdb', id).num_guild_subscribers = Coll(mdb, id).num_guild_subscribers
            ELSE /\ result'.status = "ok"
                 /\ InsertedOne(mdb, mdb', "server_active", g, id)
                 /\ Coll(mdb', id).num_guild_subscribers = Coll(mdb, id).num_guild_subscribers + 1
      ]_vars

C7_Witness ==
    /\ result.op = "set_server_active"
    /\ result.status = "private"
    /\ Coll(mdb, result.id).publish_state = PRIVATE
    /\ result.who = Coll(mdb, result.id).owner
    /\ NumRecords(mdb, "server_active", result.who, result.id) = 0

FreshCollection(c, owner) ==
    /\ c.publish_state = PRIVATE
    /\ c.alias_ids = <<>>
    /\ c.snippet_ids = <<>>
    /\ c.tags = <<>>
    /\ c.owner = owner

\* C8: the collection create_new(owner, ...) stores and returns is PRIVATE,
\* has num_subscribers = 0 and num_guild_subscribers = 0, empty alias and
\* snippet lists and empty tags, and owner = owner: is_owner(u) on it is
\* true exactly when u = owner.
C8_CreateNew ==
    result.op = "create_new" =>
        LET inst == result.value[1]
        IN  /\ inst.id = result.id
            /\ CollectionExists(mdb, inst.id)
            /\ FreshCollection(Coll(mdb, inst.id), result.who)
            /\ Coll(mdb, inst.id).num_subscribers = 0
            /\ Coll(mdb, inst.id).num_guild_subscribers = 0
            /\ FreshCollection(inst, result.who)
            /\ inst.approx_num_subscribers = 0
            /\ inst.approx_num_guild_subscribers = 0
            /\ \A u \in Users \cup Guilds : is_owner(inst, u) <=> (u = result.who)

C8_Witness ==
    /\ result.op = "create_new"
    /\ result.who = 2
    /\ is_owner(result.value[1], 2)
    /\ ~is_owner(result.value[1], 1)

InFlight(op, id) == {p \in Procs : calls[p].op = op /\ calls[p].id = id}

\* C9: the writes of subscribe reach the store one at a time, the record
\* first, then the increment of num_subscribers, then the analytics event;
\* those of unsubscribe likewise: removal, decrement, event.  So the counter
\* is incremented only with the record of the call in the store, and the
\* event is logged only after the increment (set_server_active and
\* unset_server_active are written the same way).
C9_WriteOrder ==
    [][\A id \in DOMAIN mdb.workshop_collections :
         /\ Cardinality({f \in {"workshop_subscriptions", "workshop_collections", "analytics_alias_events"} :
                            mdb'[f] # mdb[f]}) <= 1
         /\ Coll(mdb', id).num_subscribers > Coll(mdb, id).num_subscribers
               => \E p \in InFlight("subscribe", id) :
                     /\ NumRecords(mdb, "subscribe", calls[p].who, id) = 1
                     /\ Coll(mdb', id).num_subscribers = calls[p].pre[1] + 1
         /\ EventCount(mdb', "subscribe", id) > EventCount(mdb, "subscribe", id)
               => \E p \in InFlight("subscribe", id) :
                     /\ NumRecords(mdb, "subscribe", calls[p].who, id) = 1
                     /\ Coll(mdb, id).num_subscribers = calls[p].pre[1] + 1
         /\ Coll(mdb', id).num_subscribers < Coll(mdb, id).num_subscribers
               => \E p \in InFlight("unsubscribe", id) :
                     /\ NumRecords(mdb, "subscribe", calls[p].who, id) = 0
                     /\ Coll(mdb', id).num_subscribers = calls[p].pre[1] - 1
         /\ EventCount(mdb', "unsubscribe", id) > EventCount(mdb, "unsubscribe", id)
               => \E p \in InFlight("unsubscribe", id) :
                     /\ NumRecords(mdb, "subscribe", calls[p].who, id) = 0
                     /\ Coll(mdb, id).num_subscribers = calls[p].pre[1] - 1
      ]_vars

\* A crash after the first write of subscribe: the record is in the store,
\* the counter was not incremented and no event was logged.
C9_Witness ==
    /\ result.op = "subscribe"
    /\ result.status = "crashed"
    /\ result.value = <<1>>
    /\ AllIdle
    /\ NumRecords(mdb, "subscribe", result.who, result.id) = 1
    /\ Coll(mdb, result.id).num_subscribers = 0
    /\ EventCount(mdb, "subscribe", result.id) = 0

\* C10: after any sequence of completed subscribe and unsubscribe calls on a
\* collection made by create_new, num_subscribers equals the number of
\* 'subscribe' records of the collection and is never negative; likewise
\* num_guild_subscribers and the 'server_active' records.
C10_CountersMatchRecords ==
    \A id \in DOMAIN mdb.workshop_collections :
        /\ Coll(mdb, id).num_subscribers = CountSubs(mdb, "subscribe", id)
        /\ Coll(mdb, id).num_subscribers >= 0
        /\ Coll(mdb, id).num_guild_subscribers = CountSubs(mdb, "server_active", id)
        /\ Coll(mdb, id).num_guild_subscribers >= 0

\* C11: under any interleaving of subscribe(user) requests for the same user
\* and collection, the store never holds more than one 'subscribe' record
\* for the pair, so that num_subscribers, incremented once per record, never
\* exceeds the number of users; likewise set_server_active(guild), the
\* 'server_active' records and num_guild_subscribers.
C11_OneRecordPerPair ==
    \A id \in DOMAIN mdb.workshop_collections :
        /\ \A u \in Users : NumRecords(mdb, "subscribe", u, id) <= 1
        /\ Coll(mdb, id).num_subscribers <= Cardinality(Users)
        /\ \A g \in Guilds : NumRecords(mdb, "server_active", g, id) <= 1
        /\ Coll(mdb, id).num_guild_subscribers <= Cardinality(Guilds)

====
